---- MODULE Spec2Model ----
(***************************************************************************)
(* Reflex Rush (src/code.c): the game sequencer startGame(), the four      *)
(* touch interrupt handlers, the Bluetooth command dispatcher of loop(),   *)
(* the menu dispatcher executeMenuOption(), the history log and the        *)
(* leaderboard store on the SD card.                                       *)
(*                                                                         *)
(* An Arduino String is a sequence of one-character strings.  The clock    *)
(* millis() is an unsigned counter that wraps; its width is scaled down    *)
(* from 32 bits (MaxTime plays the part of 0xFFFFFFFF), and the phase      *)
(* durations, the debounce window, the history budget and the Bluetooth    *)
(* chunk size are scaled with it.                                          *)
(***************************************************************************)
EXTENDS Integers, Sequences, FiniteSets, TLC

\* ------------------------------------------------------------- bounds
\* Largest value of the scaled millis() clock; the clock counts modulo MaxTime + 1.
MaxTime == 7
\* Rounds started, remote command lines and menu selections handled, and
\* power cycles in one behaviour.
MaxRounds == 1
MaxCmds == 2
MaxBoots == 1
\* Channels 0 .. MaxTouchChannel - 1 receive edges.
MaxTouchChannel == 1
\* Channels 0 .. MaxEdgeChannel - 1 receive edges where every edge is followed,
\* the rejected ones included.
MaxEdgeChannel == 2
\* The lines the serial link holds at most before loop() reads one.
MaxPending == 1
\* The history budget, the chunk size and the debounce window of the program
\* (10000 characters, 200 characters, 50 ms), scaled.
MAX_HISTORY_SIZE == 110
BLUETOOTH_CHUNK_SIZE == 50
DEBOUNCE_WINDOW == 1

\* ---------------------------------------------------------- constants
MAX_PLAYERS == 4

Modulus == MaxTime + 1
\* 0xFFFFFFFF, the largest unsigned long: "no touch".
UNSET == MaxTime
\* random(min, max) of each phase, in scaled ticks; every duration is positive.
RedDurations == {1, 2}
YellowDurations == {1}
GreenDurations == {1, 2}

Channels == 0 .. (MAX_PLAYERS - 1)
TouchChannels == 0 .. (MaxTouchChannel - 1)

\* Unsigned subtraction a - b of two clock values.
USub(a, b) == (a - b + Modulus) % Modulus

\* ------------------------------------------------------------ strings
AsciiPrintable ==
  <<" ", "!", "\"", "#", "$", "%", "&", "'", "(", ")", "*", "+", ",", "-", ".", "/", "0", "1", "2", "3", "4", "5", "6", "7", "8", "9", ":", ";", "<", "=", ">", "?", "@", "A", "B", "C", "D", "E", "F", "G", "H", "I", "J", "K", "L", "M", "N", "O", "P", "Q", "R", "S", "T", "U", "V", "W", "X", "Y", "Z", "[", "\\", "]", "^", "_", "BACKTICK", "a", "b", "c", "d", "e", "f", "g", "h", "i", "j", "k", "l", "m", "n", "o", "p", "q", "r", "s", "t", "u", "v", "w", "x", "y", "z", "{", "|", "}", "~">>

\* The character code of c: ASCII for the printable characters (the table starts
\* at code 32; the backtick, code 96, is spelled out), 13 and 10 for CR and LF,
\* 0 for the NUL that charAt returns out of range.
Ord(c) ==
  IF c = "\n" THEN 10
  ELSE IF c = "\r" THEN 13
  ELSE IF \E k \in 1 .. Len(AsciiPrintable) : AsciiPrintable[k] = c
       THEN 31 + (CHOOSE k \in 1 .. Len(AsciiPrintable) : AsciiPrintable[k] = c)
       ELSE 0

IsDigit(c) == Ord(c) >= 48 /\ Ord(c) <= 57
IsSpace(c) == c = " " \/ c = "\r" \/ c = "\n" \/ c = "\t"

\* String::charAt(index), 0-based; "NUL" stands for the 0 returned out of range.
CharAt(s, index) == IF index >= 0 /\ index < Len(s) THEN s[index + 1] ELSE "NUL"

\* String::substring(from), 0-based, to the end; empty when from is past the end.
Substring(s, from) == IF from >= Len(s) THEN <<>> ELSE SubSeq(s, from + 1, Len(s))

\* String::substring(from, to), 0-based, to exclusive and clipped to the length.
SubstringTo(s, from, to) ==
  IF from >= Len(s) THEN <<>>
  ELSE SubSeq(s, from + 1, IF to > Len(s) THEN Len(s) ELSE to)

\* String::startsWith(prefix).
StartsWith(s, prefix) ==
  Len(s) >= Len(prefix) /\ SubSeq(s, 1, Len(prefix)) = prefix

\* String::trim(): white space removed at both ends.
RECURSIVE TrimLeft(_)
TrimLeft(s) ==
  IF s # <<>> /\ IsSpace(Head(s)) THEN TrimLeft(Tail(s)) ELSE s

RECURSIVE TrimRight(_)
TrimRight(s) ==
  IF s # <<>> /\ IsSpace(s[Len(s)]) THEN TrimRight(SubSeq(s, 1, Len(s) - 1)) ELSE s

Trim(s) == TrimRight(TrimLeft(s))

\* The digits of s from its start, accumulated as strtol does, clamped to
\* LONG_MAX (a long has 32 bits on the ESP32).
RECURSIVE Digits(_, _)
Digits(s, acc) ==
  IF s = <<>> \/ ~IsDigit(Head(s)) THEN acc
  ELSE LET d == Ord(Head(s)) - 48
       IN IF acc > (2147483647 - d) \div 10 THEN 2147483647
          ELSE Digits(Tail(s), acc * 10 + d)

\* String::toInt() (atol): leading white space, an optional sign, then digits;
\* 0 when no digit follows.
ToInt(s) ==
  LET t == TrimLeft(s)
  IN IF t # <<>> /\ Head(t) = "-" THEN 0 - Digits(Tail(t), 0)
     ELSE IF t # <<>> /\ Head(t) = "+" THEN Digits(Tail(t), 0)
     ELSE Digits(t, 0)

\* String(n) and print(n) of an integer: its decimal digits.
RECURSIVE NatToStr(_)
NatToStr(n) ==
  IF n < 10 THEN <<AsciiPrintable[17 + n]>>
  ELSE NatToStr(n \div 10) \o <<AsciiPrintable[17 + (n % 10)]>>

IntToStr(n) == IF n < 0 THEN <<"-">> \o NatToStr(0 - n) ELSE NatToStr(n)

RECURSIVE Concat(_)
Concat(ss) == IF ss = <<>> THEN <<>> ELSE Head(ss) \o Concat(Tail(ss))

\* The index (1-based) of the first c in s from index k on, 0 when there is
\* none.
IndexOf(s, c, k) ==
  LET found == {j \in k .. Len(s) : s[j] = c}
  IN IF found = {} THEN 0 ELSE CHOOSE j \in found : \A i \in found : j <= i

S_SELECT_PLAYERS ==
  <<"S", "E", "L", "E", "C", "T", "_", "P", "L", "A", "Y", "E", "R", "S", "_">>
S_SET_PLAYER ==
  <<"S", "E", "T", "_", "P", "L", "A", "Y", "E", "R", "_">>
S_START ==
  <<"S", "T", "A", "R", "T">>
S_VIEW_HISTORY ==
  <<"V", "I", "E", "W", "_", "H", "I", "S", "T", "O", "R", "Y">>
S_VIEW_LEADERBOARD ==
  <<"V", "I", "E", "W", "_", "L", "E", "A", "D", "E", "R", "B", "O", "A", "R", "D">>
S_DELETE_HISTORY ==
  <<"D", "E", "L", "E", "T", "E", "_", "H", "I", "S", "T", "O", "R", "Y">>
S_OkPlayersSet ==
  <<"O", "K", ":", " ", "P", "l", "a", "y", "e", "r", "s", " ", "s", "e", "t", " ", "t", "o", " ">>
S_ErrPlayerCount ==
  <<"E", "R", "R", "O", "R", ":", " ", "I", "n", "v", "a", "l", "i", "d", " ", "p", "l", "a", "y", "e", "r", " ", "c", "o", "u", "n", "t">>
S_OkPlayer ==
  <<"O", "K", ":", " ", "P", "l", "a", "y", "e", "r", " ">>
S_SetTo ==
  <<" ", "s", "e", "t", " ", "t", "o", " ">>
S_ErrPlayerOrName ==
  <<"E", "R", "R", "O", "R", ":", " ", "I", "n", "v", "a", "l", "i", "d", " ", "p", "l", "a", "y", "e", "r", " ", "o", "r", " ", "n", "a", "m", "e">>
S_OkGameHistory ==
  <<"O", "K", ":", " ", "G", "a", "m", "e", " ", "h", "i", "s", "t", "o", "r", "y">>
S_OkLeaderboard ==
  <<"O", "K", ":", " ", "L", "e", "a", "d", "e", "r", "b", "o", "a", "r", "d">>
S_ErrUnknown ==
  <<"E", "R", "R", "O", "R", ":", " ", "U", "n", "k", "n", "o", "w", "n", " ", "c", "o", "m", "m", "a", "n", "d">>
S_OkGameStarted ==
  <<"O", "K", ":", " ", "G", "a", "m", "e", " ", "s", "t", "a", "r", "t", "e", "d">>
S_OkHistoryDeleted ==
  <<"O", "K", ":", " ", "H", "i", "s", "t", "o", "r", "y", " ", "d", "e", "l", "e", "t", "e", "d">>
S_NoHistoryFile ==
  <<"N", "o", " ", "h", "i", "s", "t", "o", "r", "y", " ", "f", "i", "l", "e", " ", "f", "o", "u", "n", "d">>
S_WarnTruncated ==
  <<"W", "A", "R", "N", "I", "N", "G", ":", " ", "H", "i", "s", "t", "o", "r", "y", " ", "t", "r", "u", "n", "c", "a", "t", "e", "d">>
S_WarnSDFull ==
  <<"W", "A", "R", "N", "I", "N", "G", ":", " ", "S", "D", " ", "c", "a", "r", "d", " ", "f", "u", "l", "l", ",", " ", "h", "i", "s", "t", "o", "r", "y", " ", "c", "l", "e", "a", "r", "e", "d">>
S_ErrWriteHistory ==
  <<"E", "R", "R", "O", "R", ":", " ", "F", "a", "i", "l", "e", "d", " ", "t", "o", " ", "w", "r", "i", "t", "e", " ", "h", "i", "s", "t", "o", "r", "y">>
S_ErrWriteLeaderboard ==
  <<"E", "R", "R", "O", "R", ":", " ", "F", "a", "i", "l", "e", "d", " ", "t", "o", " ", "w", "r", "i", "t", "e", " ", "l", "e", "a", "d", "e", "r", "b", "o", "a", "r", "d">>
S_GameResult ==
  <<"G", "a", "m", "e", " ", "r", "e", "s", "u", "l", "t", ":", " ", "\n">>
S_Jumpstart ==
  <<":", " ", "J", "S", " ", "(", "J", "u", "m", "p", "s", "t", "a", "r", "t", ")", "\n">>
S_NoResponse ==
  <<":", " ", "N", "o", " ", "r", "e", "s", "p", "o", "n", "s", "e", "\n">>
S_Ms ==
  <<" ", "m", "s">>
S_Colon ==
  <<":", " ">>
S_TouchedAt ==
  <<" ", "t", "o", "u", "c", "h", "e", "d", " ", "a", "t", ":", " ">>
S_Player ==
  <<"P", "l", "a", "y", "e", "r", " ">>
S_OK ==
  <<"O", "K", ":", " ">>
S_ERROR ==
  <<"E", "R", "R", "O", "R", ":", " ">>
S_CRLF ==
  <<"\r", "\n">>

\* -------------------------------------------------------------- state
VARIABLES
  now,              \* millis()
  pc,               \* where the main flow stands: "idle" in loop(), else a place in startGame()
  idx,              \* the index i of the for loop in progress
  reactionTimes,    \* volatile unsigned long reactionTimes[MAX_PLAYERS]
  touchDetected,    \* volatile bool touchDetected[MAX_PLAYERS]
  lastInterrupt,    \* the static lastInterrupt of each touchISR
  numberOfPlayers,
  playerNames,
  startTime,        \* startGame's local startTime
  phaseDuration,    \* redDuration, yellowDuration or greenDuration of the phase in progress
  greenStartTime,
  gameResult,       \* startGame's local String gameResult
  gameHistory,
  leaderboard,
  sdOK,             \* the SD card is present and mounted
  historyFile,      \* /history.txt
  leaderboardFile,  \* /leaderboard.txt
  btOut,            \* the lines sent on ESP_BT since the last command, menu selection or boot
  btIn,             \* the lines received on ESP_BT that loop() has not read yet
  lastOp,           \* the last command line or menu selection handled
  touchPhase,       \* per channel: the phase in which this round's touch was accepted
  isrSerial,        \* per channel: the last line its touch handler printed on Serial
  rounds,
  cmds,
  boots

vars ==
  <<now, pc, idx, reactionTimes, touchDetected, lastInterrupt, numberOfPlayers,
    playerNames, startTime, phaseDuration, greenStartTime, gameResult, gameHistory,
    leaderboard, sdOK, historyFile, leaderboardFile, btOut, btIn, lastOp, touchPhase,
    isrSerial,
    rounds, cmds, boots>>

touchVars == <<reactionTimes, touchDetected, lastInterrupt, touchPhase, isrSerial>>
configVars == <<numberOfPlayers, playerNames>>
timerVars == <<startTime, phaseDuration, greenStartTime>>
sdVars == <<sdOK, historyFile, leaderboardFile>>
countVars == <<rounds, cmds, boots>>

NoFile == [exists |-> FALSE, data |-> <<>>]
FileOf(text) == [exists |-> TRUE, data |-> text]

\* The phase of the round the main flow is in. Red lasts from the end of the
\* reset loop to the end of the Red loop, Yellow from there until greenStartTime
\* is taken, Green until the Green loop is left.
Phase ==
  CASE pc = "idle" -> "idle"
    [] pc \in {"reset_rt", "reset_td"} -> "reset"
    [] pc \in {"red_start", "red_cond", "red_poll"} -> "red"
    [] pc \in {"yellow_start", "yellow_cond", "yellow_poll", "green_start"} -> "yellow"
    [] pc = "green" -> "green"
    [] OTHER -> "after"

\* ------------------------------------------------- touch interrupts
\* The handler without the test of the flag.
IsrAcceptsTouched(i) == USub(now, lastInterrupt[i]) > DEBOUNCE_WINDOW

\* The handler accepting at the end of the window already.
IsrAcceptsAtWindow(i) ==
  ~touchDetected[i] /\ USub(now, lastInterrupt[i]) >= DEBOUNCE_WINDOW

\* The condition of the if of touchISR1 .. touchISR4.
IsrAccepts(i) ==
  ~touchDetected[i] /\ USub(now, lastInterrupt[i]) > DEBOUNCE_WINDOW

\* Serial.print("Player <i + 1> touched at: "); Serial.print(reactionTimes[i]);
\* Serial.println(" ms").
TouchedLine(i, t) == S_Player \o IntToStr(i + 1) \o S_TouchedAt \o IntToStr(t) \o S_Ms

\* The body of the if of the handler of channel i.
IsrBody(i) ==
  /\ reactionTimes' = [reactionTimes EXCEPT ![i] = now]
  /\ touchDetected' = [touchDetected EXCEPT ![i] = TRUE]
  /\ isrSerial' = [isrSerial EXCEPT ![i] = TouchedLine(i, now)]
  /\ lastInterrupt' = [lastInterrupt EXCEPT ![i] = now]
  /\ touchPhase' = [touchPhase EXCEPT ![i] = Phase]

\* A rising edge on channel i that the handler accepts. (A rejected edge runs
\* the handler to its end without a write.)
TouchISR(i) ==
  /\ IsrAccepts(i)
  /\ IsrBody(i)
  /\ UNCHANGED <<now, pc, idx, configVars, timerVars, gameResult, gameHistory,
                 leaderboard, sdVars, btOut, lastOp, countVars, btIn>>

\* The Green loop waiting for the touch of player 1 as well.
GreenWaitingForTouch == USub(now, greenStartTime) < phaseDuration \/ ~touchDetected[0]

\* The Green loop left as soon as player 1 has touched.
GreenWaitingUntilTouch == USub(now, greenStartTime) < phaseDuration /\ ~touchDetected[0]

\* The condition of while (millis() - greenStartTime < greenDuration).
GreenWaiting == USub(now, greenStartTime) < phaseDuration

\* A millisecond passes while the main flow waits: in loop() (delay(100), and
\* the delay(5000) that ends startGame() before it returns there), in the Green
\* loop while its condition holds, and in delay(RESULT_DISPLAY_TIME) of
\* displayGameResults().
Tick ==
  /\ \/ pc \in {"idle", "display"}
     \/ pc = "green" /\ GreenWaiting
  /\ now' = (now + 1) % Modulus
  /\ UNCHANGED <<pc, idx, touchVars, configVars, timerVars, gameResult, gameHistory,
                 leaderboard, sdVars, btOut, lastOp, countVars, btIn>>

\* ------------------------------------------------------- the round
\* The loops running over every channel of the device.
AnyChannel(i) == i < MAX_PLAYERS

\* i < numberOfPlayers, the condition of the loops over the players in the
\* polls of Red and Yellow, in the scoring and in updateLeaderboard().
ActivePlayer(i) == i < numberOfPlayers

\* reactionTimes[i] = 0xFFFFFFFF of the reset loop.
ResetRT ==
  /\ pc = "reset_rt"
  /\ reactionTimes' = [reactionTimes EXCEPT ![idx] = UNSET]
  /\ pc' = "reset_td"
  /\ UNCHANGED <<now, idx, touchDetected, lastInterrupt, touchPhase, isrSerial, configVars,
                 timerVars, gameResult, gameHistory, leaderboard, sdVars, btOut,
                 lastOp, countVars, btIn>>

\* touchDetected[i] = false of the reset loop, and i++.
ResetTD ==
  /\ pc = "reset_td"
  /\ touchDetected' = [touchDetected EXCEPT ![idx] = FALSE]
  /\ touchPhase' = [touchPhase EXCEPT ![idx] = "none"]
  /\ idx' = idx + 1
  /\ pc' = IF idx + 1 < MAX_PLAYERS THEN "reset_rt" ELSE "red_start"
  /\ UNCHANGED <<now, reactionTimes, lastInterrupt, isrSerial, configVars, timerVars, gameResult,
                 gameHistory, leaderboard, sdVars, btOut, lastOp, countVars, btIn>>

\* The duration is drawn, the light is displayed and the start of the phase is
\* read from the clock.
PhaseStart(at, durations, next) ==
  /\ pc = at
  /\ \E d \in durations : phaseDuration' = d
  /\ startTime' = now
  /\ pc' = next
  /\ UNCHANGED <<now, idx, touchVars, configVars, greenStartTime, gameResult,
                 gameHistory, leaderboard, sdVars, btOut, lastOp, countVars, btIn>>

\* The condition of while (millis() - startTime < duration).
PhaseRunning == USub(now, startTime) < phaseDuration

LoopCond(at, body, next) ==
  /\ pc = at
  /\ IF PhaseRunning
     THEN pc' = body /\ idx' = 0
     ELSE pc' = next /\ idx' = idx
  /\ UNCHANGED <<now, touchVars, configVars, timerVars, gameResult, gameHistory,
                 leaderboard, sdVars, btOut, lastOp, countVars, btIn>>

\* The value the poll of player i leaves in reactionTimes[i].
Polled(i) == IF touchDetected[i] THEN 0 ELSE reactionTimes[i]

\* One pass of for (i < numberOfPlayers): if (touchDetected[i]) reactionTimes[i] = 0.
Poll(body) ==
  /\ pc = body
  /\ ActivePlayer(idx)
  /\ reactionTimes' = [reactionTimes EXCEPT ![idx] = Polled(idx)]
  /\ idx' = idx + 1
  /\ UNCHANGED <<now, pc, touchDetected, lastInterrupt, touchPhase, isrSerial, configVars,
                 timerVars, gameResult, gameHistory, leaderboard, sdVars, btOut,
                 lastOp, countVars, btIn>>

\* The for loop ends and the while condition is next; one pass of the busy
\* loop takes at most a millisecond.
PollEnd(body, at) ==
  /\ pc = body
  /\ ~ActivePlayer(idx)
  /\ \E dt \in {0, 1} : now' = (now + dt) % Modulus
  /\ pc' = at
  /\ UNCHANGED <<idx, touchVars, configVars, timerVars, gameResult, gameHistory,
                 leaderboard, sdVars, btOut, lastOp, countVars, btIn>>

RedStart == PhaseStart("red_start", RedDurations, "red_cond")
\* The Red loop left for the Green phase.
RedCondToGreen == LoopCond("red_cond", "red_poll", "green_start")
RedCond == LoopCond("red_cond", "red_poll", "yellow_start")
RedPoll == Poll("red_poll")
RedPollEnd == PollEnd("red_poll", "red_cond")

YellowStart == PhaseStart("yellow_start", YellowDurations, "yellow_cond")
YellowCond == LoopCond("yellow_cond", "yellow_poll", "green_start")
YellowPoll == Poll("yellow_poll")
YellowPollEnd == PollEnd("yellow_poll", "yellow_cond")

\* greenDuration is drawn, GREEN is displayed (which takes up to a millisecond
\* here), greenStartTime = millis().
GreenStart ==
  /\ pc = "green_start"
  /\ \E d \in GreenDurations, dt \in {0, 1} :
       /\ phaseDuration' = d
       /\ now' = (now + dt) % Modulus
       /\ greenStartTime' = now'
  /\ pc' = "green"
  /\ UNCHANGED <<idx, touchVars, configVars, startTime, gameResult, gameHistory,
                 leaderboard, sdVars, btOut, lastOp, countVars, btIn>>

\* The Green loop is left; String gameResult = "Game result: \n".
GreenExit ==
  /\ pc = "green"
  /\ ~GreenWaiting
  /\ pc' = "score"
  /\ idx' = 0
  /\ gameResult' = S_GameResult
  /\ UNCHANGED <<now, touchVars, configVars, timerVars, gameHistory, leaderboard,
                 sdVars, btOut, lastOp, countVars, btIn>>

\* The branch the scoring loop takes for a recorded time rt.
Classify(rt, gst) ==
  IF rt = 0 THEN "JS" ELSE IF rt > gst THEN "RT" ELSE "NR"

\* The subtraction with its operands exchanged.
ReactionTimeExchanged(rt, gst) == USub(gst, rt)

\* unsigned long reactionTime = reactionTimes[i] - greenStartTime.
ReactionTime(rt, gst) == USub(rt, gst)

JumpstartLine(name) == name \o S_Jumpstart
ReactionLine(name, ms) == name \o S_Colon \o IntToStr(ms) \o S_Ms \o <<"\n">>
NoResponseLine(name) == name \o S_NoResponse

\* The line the scoring loop adds for player i.
ResultLine(i) ==
  LET kind == Classify(reactionTimes[i], greenStartTime)
  IN CASE kind = "JS" -> JumpstartLine(playerNames[i])
       [] kind = "RT" ->
            ReactionLine(playerNames[i], ReactionTime(reactionTimes[i], greenStartTime))
       [] OTHER -> NoResponseLine(playerNames[i])

Score ==
  /\ pc = "score"
  /\ ActivePlayer(idx)
  /\ gameResult' = gameResult \o ResultLine(idx)
  /\ idx' = idx + 1
  /\ UNCHANGED <<now, pc, touchVars, configVars, timerVars, gameHistory, leaderboard,
                 sdVars, btOut, lastOp, countVars, btIn>>

\* ESP_BT.println(gameResult), then displayGameResults(gameResult).
ScoreEnd ==
  /\ pc = "score"
  /\ ~ActivePlayer(idx)
  /\ btOut' = Append(btOut, gameResult)
  /\ pc' = "display"
  /\ UNCHANGED <<now, idx, touchVars, configVars, timerVars, gameResult, gameHistory,
                 leaderboard, sdVars, lastOp, countVars, btIn>>

DisplayDone ==
  /\ pc = "display"
  /\ pc' = "check"
  /\ UNCHANGED <<now, idx, touchVars, configVars, timerVars, gameResult, gameHistory,
                 leaderboard, sdVars, btOut, lastOp, countVars, btIn>>

\* ---------------------------------------------------------- storage
\* SD.exists(path) on a file f.
SdExists(f) == sdOK /\ f.exists

\* deleteHistory(): what it leaves in /history.txt and in gameHistory, and the
\* line it sends.
DeleteHistoryResult ==
  IF SdExists(historyFile)
  THEN [file |-> NoFile, hist |-> <<>>, out |-> <<S_OkHistoryDeleted>>]
  ELSE [file |-> historyFile, hist |-> gameHistory, out |-> <<S_NoHistoryFile>>]

\* loadHistoryFromSD().
LoadHistory(f) == IF SdExists(f) THEN f.data ELSE <<>>

\* Stream::readStringUntil(c): the characters before the first c, and what
\* is left after it.
ReadStringUntil(data, c) ==
  LET k == IndexOf(data, c, 1)
  IN IF k = 0 THEN [tok |-> data, rest |-> <<>>]
     ELSE [tok |-> SubSeq(data, 1, k - 1), rest |-> SubSeq(data, k + 1, Len(data))]

\* The while loop of loadLeaderboardFromSD().
RECURSIVE LoadEntries(_, _, _)
LoadEntries(data, lb, index) ==
  IF data = <<>> \/ index >= MAX_PLAYERS THEN lb
  ELSE LET a == ReadStringUntil(data, ",")
           b == ReadStringUntil(a.rest, "\n")
       IN LoadEntries(b.rest,
                      [lb EXCEPT ![index] =
                         [name |-> a.tok, bestReactionTime |-> ToInt(b.tok)]],
                      index + 1)

\* loadLeaderboardFromSD() on the in-memory leaderboard lb.
LoadLeaderboard(f, lb) == IF SdExists(f) THEN LoadEntries(f.data, lb, 0) ELSE lb

\* One line of saveLeaderboardToSD(): print(name), print(","), println(time).
LeaderboardLine(e) == e.name \o <<",">> \o IntToStr(e.bestReactionTime) \o S_CRLF

\* What saveLeaderboardToSD() writes: MAX_PLAYERS lines.
LeaderboardText(lb) ==
  Concat([k \in 1 .. MAX_PLAYERS |-> LeaderboardLine(lb[k - 1])])

\* sendHistoryInChunks(): the lines sent.
RECURSIVE Chunks(_, _)
Chunks(h, i) ==
  IF i >= Len(h) THEN <<>>
  ELSE <<SubstringTo(h, i, i + BLUETOOTH_CHUNK_SIZE)>> \o Chunks(h, i + BLUETOOTH_CHUNK_SIZE)

\* showLeaderboard(): the lines sent, one per slot with a non-zero time.
RECURSIVE LeaderboardLines(_, _)
LeaderboardLines(lb, i) ==
  IF i >= MAX_PLAYERS THEN <<>>
  ELSE (IF lb[i].bestReactionTime > 0
        THEN <<lb[i].name \o S_Colon \o IntToStr(lb[i].bestReactionTime) \o S_Ms>>
        ELSE <<>>) \o LeaderboardLines(lb, i + 1)

\* ------------------------------------------- the end of the round
\* checkSDCardSpace(): the sizes of the files of the card are summed; above
\* 1 MB the history is deleted. The other files of the card are not modelled:
\* whether the sum exceeds 1 MB is the card's choice. It returns true always.
CheckSDCardSpace ==
  /\ pc = "check"
  /\ \E full \in (IF sdOK THEN BOOLEAN ELSE {FALSE}) :
       IF full
       THEN /\ historyFile' = DeleteHistoryResult.file
            /\ gameHistory' = <<>>
            /\ btOut' = btOut \o DeleteHistoryResult.out \o <<S_WarnSDFull>>
       ELSE UNCHANGED <<historyFile, gameHistory, btOut>>
  /\ pc' = "append"
  /\ UNCHANGED <<now, idx, touchVars, configVars, timerVars, gameResult, leaderboard,
                 sdOK, leaderboardFile, lastOp, countVars, btIn>>

\* The test without the length of the result.
FitsHistoryWithoutResult(h, r) == Len(h) < MAX_HISTORY_SIZE

\* gameHistory.length() + gameResult.length() < MAX_HISTORY_SIZE.
FitsHistory(h, r) == Len(h) + Len(r) < MAX_HISTORY_SIZE

\* The history after the result r is added to the history h.
AppendedHistory(h, r) == IF FitsHistory(h, r) THEN h \o r ELSE r

\* The body of if (checkSDCardSpace()): the append or the truncation, then
\* saveHistoryToSD().
AppendHistory ==
  /\ pc = "append"
  /\ gameHistory' = AppendedHistory(gameHistory, gameResult)
  /\ historyFile' = IF sdOK THEN FileOf(gameHistory') ELSE historyFile
  /\ btOut' = btOut
               \o (IF FitsHistory(gameHistory, gameResult) THEN <<>> ELSE <<S_WarnTruncated>>)
               \o (IF sdOK THEN <<>> ELSE <<S_ErrWriteHistory>>)
  /\ pc' = "update"
  /\ idx' = 0
  /\ UNCHANGED <<now, touchVars, configVars, timerVars, gameResult, leaderboard,
                 sdOK, leaderboardFile, lastOp, countVars, btIn>>

\* The conditions of updateLeaderboard().
\* The test with the order of the two times left out.
ValidReactionAnyOrder(rt, gst) == rt # gst /\ rt # UNSET
ValidReaction(rt, gst) == rt > gst /\ rt # UNSET
\* The comparison with the best turned round.
BeatsBestWhenLarger(r, best) == best = 0 \/ r > best
BeatsBest(r, best) == best = 0 \/ r < best

\* The slot of player i after the body of the loop of updateLeaderboard().
UpdatedSlot(i) ==
  IF /\ ValidReaction(reactionTimes[i], greenStartTime)
     /\ BeatsBest(ReactionTime(reactionTimes[i], greenStartTime),
                  leaderboard[i].bestReactionTime)
  THEN [name |-> playerNames[i],
        bestReactionTime |-> ReactionTime(reactionTimes[i], greenStartTime)]
  ELSE leaderboard[i]

UpdateLeaderboard ==
  /\ pc = "update"
  /\ ActivePlayer(idx)
  /\ leaderboard' = [leaderboard EXCEPT ![idx] = UpdatedSlot(idx)]
  /\ idx' = idx + 1
  /\ UNCHANGED <<now, pc, touchVars, configVars, timerVars, gameResult, gameHistory,
                 sdVars, btOut, lastOp, countVars, btIn>>

\* updateLeaderboard() returns; saveLeaderboardToSD(); startGame() returns to
\* loop() and its locals are gone.
SaveLeaderboard ==
  /\ pc = "update"
  /\ ~ActivePlayer(idx)
  /\ leaderboardFile' = IF sdOK THEN FileOf(LeaderboardText(leaderboard)) ELSE leaderboardFile
  /\ btOut' = btOut \o (IF sdOK THEN <<>> ELSE <<S_ErrWriteLeaderboard>>)
  /\ pc' = "idle"
  /\ idx' = 0
  /\ startTime' = 0
  /\ gameResult' = <<>>
  /\ UNCHANGED <<now, touchVars, configVars, phaseDuration, greenStartTime, gameHistory,
                 leaderboard, sdOK, historyFile, lastOp, countVars, btIn>>

\* ------------------------------------------------ command dispatcher
\* The command lines the remote link delivers.
SelectCounts == (0 - 1) .. (MAX_PLAYERS + 1)
PlayerNumbers == {1, 2, 5, 11, 12}
Names == {<<"A", "l", "i", "c", "e">>, <<"A", ",", "B">>}

SelectPlayersLine(n) == S_SELECT_PLAYERS \o IntToStr(n)
SetPlayerLine(i, name) == S_SET_PLAYER \o IntToStr(i) \o <<"_">> \o name

CommandLines ==
  {SelectPlayersLine(n) : n \in SelectCounts}
    \cup {SetPlayerLine(i, name) : i \in PlayerNumbers, name \in Names \cup {<<>>}}
    \cup {S_START, S_VIEW_HISTORY, S_VIEW_LEADERBOARD, S_DELETE_HISTORY,
          S_DELETE_HISTORY \o <<"\r">>, <<"H", "E", "L", "L", "O">>}

\* The range test with 0 let in.
ValidPlayerCountFromZero(num) == num >= 0 /\ num <= MAX_PLAYERS

\* num >= 1 && num <= MAX_PLAYERS.
ValidPlayerCount(num) == num >= 1 /\ num <= MAX_PLAYERS

\* int num = command.substring(15).toInt().
PlayerCountOf(command) == ToInt(Substring(command, 15))

\* int playerIndex = command.charAt(12) - '1'.
PlayerIndexOf(command) == Ord(CharAt(command, 12)) - Ord("1")

\* String playerName = command.substring(14).
PlayerNameOf(command) == Substring(command, 14)

\* playerIndex >= 0 && playerIndex < numberOfPlayers && playerName.length() > 0.
ValidPlayer(playerIndex, playerName) ==
  playerIndex >= 0 /\ playerIndex < numberOfPlayers /\ Len(playerName) > 0

\* The branch of SELECT_PLAYERS_.
SelectPlayers(command) ==
  LET num == PlayerCountOf(command)
  IN /\ IF ValidPlayerCount(num)
        THEN /\ numberOfPlayers' = num
             /\ btOut' = <<S_OkPlayersSet \o IntToStr(num)>>
        ELSE /\ numberOfPlayers' = numberOfPlayers
             /\ btOut' = <<S_ErrPlayerCount>>
     /\ UNCHANGED <<playerNames, gameHistory, historyFile>>

\* The branch of SET_PLAYER_.
SetPlayer(command) ==
  LET playerIndex == PlayerIndexOf(command)
      playerName == PlayerNameOf(command)
  IN /\ IF ValidPlayer(playerIndex, playerName)
        THEN /\ playerNames' = [playerNames EXCEPT ![playerIndex] = playerName]
             /\ btOut' = <<S_OkPlayer \o IntToStr(playerIndex + 1) \o S_SetTo \o playerName>>
        ELSE /\ playerNames' = playerNames
             /\ btOut' = <<S_ErrPlayerOrName>>
     /\ UNCHANGED <<numberOfPlayers, gameHistory, historyFile>>

\* The if / else if chain of loop() on the trimmed command.
Dispatch(command) ==
  IF StartsWith(command, S_SELECT_PLAYERS) THEN SelectPlayers(command)
  ELSE IF StartsWith(command, S_SET_PLAYER) THEN SetPlayer(command)
  ELSE IF command = S_START
    THEN btOut' = <<>> /\ UNCHANGED <<configVars, gameHistory, historyFile>>
  ELSE IF command = S_VIEW_HISTORY
    THEN /\ btOut' = <<S_OkGameHistory>> \o Chunks(gameHistory, 0)
         /\ UNCHANGED <<configVars, gameHistory, historyFile>>
  ELSE IF command = S_VIEW_LEADERBOARD
    THEN /\ btOut' = <<S_OkLeaderboard>> \o LeaderboardLines(leaderboard, 0)
         /\ UNCHANGED <<configVars, gameHistory, historyFile>>
  ELSE IF command = S_DELETE_HISTORY
    THEN /\ historyFile' = DeleteHistoryResult.file
         /\ gameHistory' = DeleteHistoryResult.hist
         /\ btOut' = DeleteHistoryResult.out
         /\ UNCHANGED configVars
  ELSE /\ btOut' = <<S_ErrUnknown>>
       /\ UNCHANGED <<configVars, gameHistory, historyFile>>

\* The link read while the result of the round is still displayed.
InLoopOrDisplay == pc \in {"idle", "display"}

\* The main flow is in loop(), the only function that reads ESP_BT and the
\* menu button; startGame() returns there when the round is over.
InLoop == pc = "idle"

\* command = ESP_BT.readStringUntil('\n'); command.trim(); and the dispatch
\* of one of the lines.
BtDispatch(lines) ==
  /\ InLoop
  /\ cmds < MaxCmds
  /\ \E line \in lines :
       /\ lastOp' = [src |-> "bt", line |-> line, opt |-> 0]
       /\ Dispatch(Trim(line))
  /\ cmds' = cmds + 1
  /\ UNCHANGED <<now, pc, idx, touchVars, timerVars, gameResult, leaderboard, sdOK,
                 leaderboardFile, rounds, boots>>

\* if (ESP_BT.available()) of loop(): one of the lines has arrived since the
\* last pass and is read, trimmed and dispatched.
BtCommandOf(lines) == BtDispatch(lines) /\ UNCHANGED btIn

BtCommand == BtCommandOf(CommandLines)

\* ----------------------------------------------------------- the menu
\* executeMenuOption() case 0, entered from loop() when the button is pressed
\* on "Start Game": the acknowledgement is sent and startGame() begins.
MenuStartGame ==
  /\ InLoop
  /\ rounds < MaxRounds
  /\ lastOp' = [src |-> "menu", line |-> <<>>, opt |-> 0]
  /\ btOut' = <<S_OkGameStarted>>
  /\ pc' = "reset_rt"
  /\ idx' = 0
  /\ rounds' = rounds + 1
  /\ UNCHANGED <<now, touchVars, configVars, timerVars, gameResult, gameHistory,
                 leaderboard, sdVars, cmds, boots, btIn>>

\* executeMenuOption() cases 1, 2 and 3.
MenuOption ==
  /\ InLoop
  /\ cmds < MaxCmds
  /\ \E opt \in 1 .. 3 :
       /\ lastOp' = [src |-> "menu", line |-> <<>>, opt |-> opt]
       /\ CASE opt = 1 ->
                 /\ btOut' = <<S_OkGameHistory>> \o Chunks(gameHistory, 0)
                 /\ UNCHANGED <<gameHistory, historyFile>>
            [] opt = 2 ->
                 /\ btOut' = <<S_OkLeaderboard>> \o LeaderboardLines(leaderboard, 0)
                 /\ UNCHANGED <<gameHistory, historyFile>>
            [] opt = 3 ->
                 /\ historyFile' = DeleteHistoryResult.file
                 /\ gameHistory' = DeleteHistoryResult.hist
                 /\ btOut' = DeleteHistoryResult.out
  /\ cmds' = cmds + 1
  /\ UNCHANGED <<now, pc, idx, touchVars, configVars, timerVars, gameResult,
                 leaderboard, sdOK, leaderboardFile, rounds, boots, btIn>>

\* -------------------------------------------------------------- boot
DefaultName(i) == S_Player \o IntToStr(i + 1)
EmptyLeaderboard == [i \in Channels |-> [name |-> <<>>, bestReactionTime |-> 0]]

\* A history left on the card by an earlier session: two rounds of one player.
EarlierHistory ==
  S_GameResult \o NoResponseLine(DefaultName(0))
    \o S_GameResult \o NoResponseLine(DefaultName(0))

\* The leaderboard of that session: player 1 reacted in 2 ms.
EarlierLeaderboard ==
  [EmptyLeaderboard EXCEPT ![0] = [name |-> DefaultName(0), bestReactionTime |-> 2]]

\* The state setup() leaves with the card (present or not) holding hf and lf.
\* setup() itself waits 2000 ms, more than the debounce window, before it
\* attaches the interrupts.
Booted(sd, hf, lf) ==
  /\ now = DEBOUNCE_WINDOW + 1
  /\ pc = "idle"
  /\ idx = 0
  /\ reactionTimes = [i \in Channels |-> UNSET]
  /\ touchDetected = [i \in Channels |-> FALSE]
  /\ lastInterrupt = [i \in Channels |-> 0]
  /\ touchPhase = [i \in Channels |-> "none"]
  /\ isrSerial = [i \in Channels |-> <<>>]
  /\ numberOfPlayers = 1
  /\ playerNames = [i \in Channels |-> DefaultName(i)]
  /\ startTime = 0
  /\ phaseDuration = 0
  /\ greenStartTime = 0
  /\ gameResult = <<>>
  /\ sdOK = sd
  /\ historyFile = hf
  /\ leaderboardFile = lf
  /\ gameHistory = LoadHistory(historyFile)
  /\ leaderboard = LoadLeaderboard(leaderboardFile, EmptyLeaderboard)
  /\ btOut = <<>>
  /\ btIn = <<>>
  /\ lastOp = [src |-> "boot", line |-> <<>>, opt |-> 0]
  /\ rounds = 0
  /\ cmds = 0

\* The card is absent, or new (no file), or holds the two files an earlier
\* session left.
Init ==
  /\ boots = 0
  /\ \/ Booted(FALSE, NoFile, NoFile)
     \/ Booted(TRUE, NoFile, NoFile)
     \/ Booted(TRUE, FileOf(EarlierHistory), FileOf(LeaderboardText(EarlierLeaderboard)))

\* The device is switched off and on in loop(): setup() runs again on the
\* same card.
Reboot ==
  /\ pc = "idle"
  /\ boots < MaxBoots
  /\ boots' = boots + 1
  /\ now' = DEBOUNCE_WINDOW + 1
  /\ reactionTimes' = [i \in Channels |-> UNSET]
  /\ touchDetected' = [i \in Channels |-> FALSE]
  /\ lastInterrupt' = [i \in Channels |-> 0]
  /\ touchPhase' = [i \in Channels |-> "none"]
  /\ isrSerial' = [i \in Channels |-> <<>>]
  /\ numberOfPlayers' = 1
  /\ playerNames' = [i \in Channels |-> DefaultName(i)]
  /\ phaseDuration' = 0
  /\ greenStartTime' = 0
  /\ gameHistory' = LoadHistory(historyFile)
  /\ leaderboard' = LoadLeaderboard(leaderboardFile, EmptyLeaderboard)
  /\ btOut' = <<>>
  /\ btIn' = <<>>
  /\ lastOp' = [src |-> "boot", line |-> <<>>, opt |-> 0]
  /\ UNCHANGED <<pc, idx, startTime, gameResult, sdVars, rounds, cmds>>

\* The steps of startGame() from the reset loop to its return.
RoundStep ==
  \/ ResetRT
  \/ ResetTD
  \/ RedStart
  \/ RedCond
  \/ RedPoll
  \/ RedPollEnd
  \/ YellowStart
  \/ YellowCond
  \/ YellowPoll
  \/ YellowPollEnd
  \/ GreenStart
  \/ GreenExit
  \/ Score
  \/ ScoreEnd
  \/ DisplayDone
  \/ CheckSDCardSpace
  \/ AppendHistory
  \/ UpdateLeaderboard
  \/ SaveLeaderboard

\* ------------------------------------------------ the specifications
\* The whole program over a session: every command line and menu selection,
\* rounds and power cycles. The player of channel 0 touches during Green or
\* while the result is displayed, and the clock is followed in the Green loop.
GreenTick == pc = "green" /\ Tick
SessionTouch == pc \in {"green", "display"} /\ TouchISR(0)

Next ==
  \/ SessionTouch
  \/ GreenTick
  \/ BtCommand
  \/ MenuStartGame
  \/ MenuOption
  \/ Reboot
  \/ RoundStep

Spec == Init /\ [][Next]_vars

\* The round under every interleaving of the touch interrupts and the clock:
\* an edge may come on any touch channel at any step, in loop() and in
\* startGame(). The remote link delivers these lines.
RoundCommandLines == {SelectPlayersLine(2)}
RoundCommand == BtCommandOf(RoundCommandLines)

NextRound ==
  \/ \E i \in TouchChannels : TouchISR(i)
  \/ Tick
  \/ RoundCommand
  \/ MenuStartGame
  \/ RoundStep

SpecRound == Init /\ [][NextRound]_vars

\* ------------------------------------------------------- properties
\* The scoring loop handles player i in this step.
ScoresPlayer(i) == Score /\ idx = i

\* C1: at Scoring, an active player whose channel accepted no touch in the
\* round, so that reactionTimes[i] is still 0xFFFFFFFF, gets the line
\* "<name>: No response", whatever greenStartTime is.
C1_UntouchedIsNoResponse ==
  [][\A i \in Channels :
       (ScoresPlayer(i) /\ touchPhase[i] = "none" /\ reactionTimes[i] = UNSET)
         => gameResult' = gameResult \o NoResponseLine(playerNames[i])]_vars

\* C2: at Scoring, an active player whose handler accepted a touch during Red
\* or Yellow (until greenStartTime is taken, the time after the last poll of
\* the phase included) gets the line "<name>: JS (Jumpstart)".
C2_EarlyTouchIsJumpstart ==
  [][\A i \in Channels :
       (ScoresPlayer(i) /\ touchPhase[i] \in {"red", "yellow"})
         => gameResult' = gameResult \o JumpstartLine(playerNames[i])]_vars

\* C3: at Scoring, an active player whose touch of the round was accepted after
\* greenStartTime was taken and before the player is scored, with a timestamp
\* t > greenStartTime, gets the line "<name>: <t - greenStartTime> ms", and
\* t - greenStartTime is not negative.
C3_GreenTouchIsReactionTime ==
  [][\A i \in Channels :
       (/\ ScoresPlayer(i)
        /\ touchPhase[i] \in {"green", "after"}
        /\ reactionTimes[i] > greenStartTime)
         => /\ reactionTimes[i] - greenStartTime >= 0
            /\ gameResult' =
                 gameResult \o ReactionLine(playerNames[i], reactionTimes[i] - greenStartTime)]_vars

\* Player 1 touched in Green, later than greenStartTime, and has been scored
\* with that reaction time.
C3_Witness ==
  /\ pc = "score"
  /\ idx = 1
  /\ touchPhase[0] = "green"
  /\ reactionTimes[0] > greenStartTime
  /\ gameResult =
       S_GameResult \o ReactionLine(playerNames[0], reactionTimes[0] - greenStartTime)

\* The dispatcher of loop() handles this line of the remote link in this step.
BtHandles(line) ==
  cmds' = cmds + 1 /\ lastOp' = [src |-> "bt", line |-> line, opt |-> 0]

\* C4: for every i in 1 .. numberOfPlayers and every non-empty name, the line
\* SET_PLAYER_<i>_<name> sets playerNames[i - 1] to <name>, leaves the other
\* names as they are and replies "OK: Player <i> set to <name>".
C4_SetPlayerRenames ==
  [][\A i \in PlayerNumbers, name \in Names :
       (BtHandles(SetPlayerLine(i, name)) /\ i \in 1 .. numberOfPlayers)
         => /\ playerNames' = [playerNames EXCEPT ![i - 1] = name]
            /\ btOut' = <<S_OkPlayer \o IntToStr(i) \o S_SetTo \o name>>]_vars

\* C5: SELECT_PLAYERS_<n> with n in 1 .. MAX_PLAYERS sets numberOfPlayers to n
\* and replies "OK: Players set to <n>"; with any other n it leaves
\* numberOfPlayers as it is and replies "ERROR: Invalid player count".
C5_SelectPlayers ==
  [][\A n \in SelectCounts :
       BtHandles(SelectPlayersLine(n))
         => IF n \in 1 .. MAX_PLAYERS
            THEN numberOfPlayers' = n /\ btOut' = <<S_OkPlayersSet \o IntToStr(n)>>
            ELSE numberOfPlayers' = numberOfPlayers /\ btOut' = <<S_ErrPlayerCount>>]_vars

\* SELECT_PLAYERS_5 has been refused and has left the 3 players that
\* SELECT_PLAYERS_3 had set.
C5_Witness ==
  /\ lastOp = [src |-> "bt", line |-> SelectPlayersLine(MAX_PLAYERS + 1), opt |-> 0]
  /\ btOut = <<S_ErrPlayerCount>>
  /\ numberOfPlayers = 3

\* C6: the best time of slot i changes only in the step of updateLeaderboard()
\* for an active player i whose reaction time r of the round is valid and is
\* smaller than the best, or the best is unset (0), and the new best is r; a
\* set best never grows and never returns to 0.
C6_BestOnlyDecreases ==
  [][\A i \in Channels :
       LET old == leaderboard[i].bestReactionTime
           new == leaderboard'[i].bestReactionTime
           r == reactionTimes[i] - greenStartTime
       IN /\ new # old
               => /\ pc = "update" /\ idx = i /\ i < numberOfPlayers
                  /\ reactionTimes[i] > greenStartTime /\ reactionTimes[i] # UNSET
                  /\ old = 0 \/ r < old
                  /\ new = r
          /\ old # 0 => (new # 0 /\ new <= old)]_vars

\* Player 1, whose best of the earlier session was 2 ms, reacted in 1 ms and
\* slot 0 holds 1.
C6_Witness ==
  /\ pc = "update"
  /\ idx = 1
  /\ leaderboardFile = FileOf(LeaderboardText(EarlierLeaderboard))
  /\ reactionTimes[0] - greenStartTime = 1
  /\ leaderboard[0].bestReactionTime = 1

C8_SaveLoadRoundTrip ==
  [][(/\ boots' = boots + 1
      /\ sdOK
      /\ leaderboardFile = FileOf(LeaderboardText(leaderboard)))
       => \A i \in Channels :
            leaderboard[i].bestReactionTime > 0 => leaderboard'[i] = leaderboard[i]]_vars

\* The delete-history operation is carried out in this step, from the remote
\* link or from the menu.
DeletesHistory ==
  /\ cmds' = cmds + 1
  /\ \/ lastOp'.src = "bt" /\ Trim(lastOp'.line) = S_DELETE_HISTORY
     \/ lastOp'.src = "menu" /\ lastOp'.opt = 3

\* C9: after the delete-history operation the history in memory is empty and
\* the card holds no history file, whatever the state before.
C9_DeleteClearsHistory ==
  [][DeletesHistory => (gameHistory' = <<>> /\ ~historyFile'.exists)]_vars

\* The lines of out that are an acknowledgement or an error.
AckLines(out) ==
  {k \in 1 .. Len(out) : StartsWith(out[k], S_OK) \/ StartsWith(out[k], S_ERROR)}

\* C10: every command line of the remote link is answered with exactly one
\* line that is an acknowledgement ("OK: ...") or an error ("ERROR: ...").
C10_OneReplyPerCommand ==
  [][(cmds' = cmds + 1 /\ lastOp'.src = "bt")
       => Cardinality(AckLines(btOut')) = 1]_vars

\* The lines the command set does not provide for: no count in 1 .. MAX_PLAYERS,
\* no index among the active players, no name, or no known command word.
RejectedLines ==
  {SelectPlayersLine(n) : n \in SelectCounts \ (1 .. MAX_PLAYERS)}
    \cup {SetPlayerLine(i, name) :
            i \in PlayerNumbers \ (1 .. numberOfPlayers), name \in Names \cup {<<>>}}
    \cup {SetPlayerLine(i, <<>>) : i \in PlayerNumbers}
    \cup {<<"H", "E", "L", "L", "O">>}

\* C11: a remote command that is rejected (an unrecognized line, SELECT_PLAYERS
\* with a count outside 1 .. MAX_PLAYERS, SET_PLAYER with an index outside the
\* active players or with an empty name) is answered with an ERROR line and
\* leaves numberOfPlayers, the names, the history and the leaderboard unchanged.
C11_RejectedChangesNothing ==
  [][\A line \in RejectedLines :
       BtHandles(line)
         => /\ \E k \in 1 .. Len(btOut') : StartsWith(btOut'[k], S_ERROR)
            /\ UNCHANGED <<numberOfPlayers, playerNames, gameHistory, leaderboard>>]_vars

\* C12: without the card, a round that was started is scored and its result is
\* sent on the remote link, and the two files are not written to: no write is
\* attempted, so no write fails.
C12_NoCardRoundSkipsWrites ==
  ~sdOK
    => /\ pc \in {"display", "check", "append", "update"}
            => \E k \in 1 .. Len(btOut) : btOut[k] = gameResult
       /\ \A k \in 1 .. Len(btOut) :
            btOut[k] \notin {S_ErrWriteHistory, S_ErrWriteLeaderboard}

\* The state of the sequencer: Red, Yellow and Green begin where the duration
\* of the phase is drawn and its light is displayed, Scoring where the Green
\* loop is left; startGame() is entered and the touch state is reset on the
\* way from Idle to Red.
SequencerState ==
  CASE pc \in {"idle", "reset_rt", "reset_td"} -> "Idle"
    [] pc \in {"red_start", "red_cond", "red_poll"} -> "Red"
    [] pc \in {"yellow_start", "yellow_cond", "yellow_poll"} -> "Yellow"
    [] pc \in {"green_start", "green"} -> "Green"
    [] OTHER -> "Scoring"

SequencerOrder ==
  {<<"Idle", "Red">>, <<"Red", "Yellow">>, <<"Yellow", "Green">>,
   <<"Green", "Scoring">>, <<"Scoring", "Idle">>}

\* C13: the state of the sequencer changes only along Idle -> Red -> Yellow ->
\* Green -> Scoring -> Idle, and the main flow that finds the Red timer elapsed
\* goes to Yellow, whether or not a player jumpstarted.
C13_PhaseOrder ==
  [][/\ SequencerState' # SequencerState
          => <<SequencerState, SequencerState'>> \in SequencerOrder
     /\ (SequencerState = "Red" /\ SequencerState' # "Red") => ~PhaseRunning
     /\ (pc = "red_cond" /\ ~PhaseRunning /\ pc' # pc) => SequencerState' = "Yellow"]_vars

\* Yellow has begun in a round in which player 1 jumpstarted during Red.
C13_Witness ==
  /\ pc = "yellow_cond"
  /\ touchPhase[0] = "red"
  /\ reactionTimes[0] = 0

\* The round with time advancing: the main flow keeps running, millis() grows
\* again and again while a poll loop spins, and it grows while the Green loop
\* waits.
SpecRoundFair ==
  /\ SpecRound
  /\ WF_vars(RoundStep)
  /\ SF_vars(RedPollEnd /\ now' # now)
  /\ SF_vars(YellowPollEnd /\ now' # now)
  /\ WF_vars(GreenTick)

\* C14: every round that starts reaches Scoring and then returns to Idle, under
\* every interleaving of the touch interrupts, provided time advances.
C14_RoundCompletes ==
  /\ (pc = "reset_rt") ~> (pc = "score")
  /\ (pc = "score") ~> (pc = "idle")

\* A round in which player 1 touched during Red has returned to loop().
C14_Witness ==
  /\ pc = "idle"
  /\ rounds = 1
  /\ touchPhase[0] = "red"

\* ------------------------------------------------- every edge followed
EdgeChannels == 0 .. (MaxEdgeChannel - 1)

\* A rising edge on channel i runs the handler of the channel, whether it
\* accepts the edge or not.
TouchEdge(i) ==
  /\ lastOp' = [src |-> IF IsrAccepts(i) THEN "edge_accepted" ELSE "edge_rejected",
                line |-> <<>>, opt |-> i]
  /\ IF IsrAccepts(i) THEN IsrBody(i) ELSE UNCHANGED touchVars
  /\ UNCHANGED <<now, pc, idx, configVars, timerVars, gameResult, gameHistory,
                 leaderboard, sdVars, btOut, countVars, btIn>>

\* Rounds of the default single player on a device without the card, with
\* edges on the channels of player 1 and of player 2 at any step.
InitTouch == boots = 0 /\ Booted(FALSE, NoFile, NoFile)

NextTouch ==
  \/ \E i \in EdgeChannels : TouchEdge(i)
  \/ Tick
  \/ MenuStartGame
  \/ RoundStep

SpecTouch == InitTouch /\ [][NextTouch]_vars

\* C15: between one reset of a channel and the next its handler accepts at
\* most one edge, and an edge on a channel whose flag is set leaves the flag
\* and the recorded timestamp as they are.
C15_OneAcceptPerRound ==
  [][\A i \in EdgeChannels :
       /\ (TouchEdge(i) /\ lastOp'.src = "edge_accepted") => touchPhase[i] = "none"
       /\ (TouchEdge(i) /\ touchDetected[i])
            => /\ lastOp'.src = "edge_rejected"
               /\ touchDetected'[i]
               /\ reactionTimes'[i] = reactionTimes[i]]_vars

\* A second edge on channel 0 was rejected, more than the debounce window
\* after the one accepted in this round.
C15_Witness ==
  /\ lastOp = [src |-> "edge_rejected", line |-> <<>>, opt |-> 0]
  /\ touchDetected[0]
  /\ rounds = 1
  /\ touchPhase[0] = "green"
  /\ USub(now, lastInterrupt[0]) > DEBOUNCE_WINDOW

\* C16: the handler of a channel writes the flag, the timestamp and the
\* debounce time of that channel and nothing else: it sends nothing on Serial
\* or on the remote link and leaves the card and the rest of the state alone.
C16_HandlerWritesOnlyItsChannel ==
  [][\A i \in EdgeChannels :
       TouchEdge(i)
         => /\ \A j \in Channels \ {i} :
                 /\ reactionTimes'[j] = reactionTimes[j]
                 /\ touchDetected'[j] = touchDetected[j]
                 /\ lastInterrupt'[j] = lastInterrupt[j]
            /\ UNCHANGED <<isrSerial, btOut, sdVars, gameHistory, leaderboard, now, pc,
                           idx, configVars, timerVars, gameResult>>]_vars

\* The text s holds the line, at the start of a line.
HasLine(s, line) ==
  \E k \in 1 .. (Len(s) - Len(line)) :
    s[k] = "\n" /\ SubSeq(s, k + 1, k + Len(line)) = line

\* C17: the leaderboard is folded from the result that was emitted: slot i
\* changes only if the result of the round holds the line "<name>: <r> ms" of
\* player i, and it then holds that r, also when a touch comes while the
\* result is displayed.
C17_LeaderboardFollowsResult ==
  [][\A i \in Channels :
       (pc = "update" /\ leaderboard'[i] # leaderboard[i])
         => HasLine(gameResult,
                    ReactionLine(playerNames[i], leaderboard'[i].bestReactionTime))]_vars

\* The poll of Red or Yellow has put the penalty value in the timestamp of the
\* active player i, and the round is not over.
Penalized(i) ==
  /\ i < numberOfPlayers
  /\ SequencerState # "Idle"
  /\ touchPhase[i] \in {"reset", "red", "yellow"}
  /\ touchDetected[i]
  /\ reactionTimes[i] = 0

\* C18: a player the sequencer has marked as Jumpstart keeps the timestamp 0
\* whatever edges come later, gets the line "<name>: JS (Jumpstart)" at
\* Scoring, and the leaderboard slot of the player is not changed by the round.
C18_PenaltyIsKept ==
  [][\A i \in Channels :
       Penalized(i)
         => /\ reactionTimes'[i] = 0
            /\ touchDetected'[i]
            /\ leaderboard'[i] = leaderboard[i]
            /\ ScoresPlayer(i) => gameResult' = gameResult \o JumpstartLine(playerNames[i])]_vars

\* The round of a player penalized in Red has come to the end of
\* updateLeaderboard(), an edge on the channel having been rejected since.
C18_Witness ==
  /\ pc = "update"
  /\ idx = 1
  /\ touchPhase[0] = "red"
  /\ reactionTimes[0] = 0
  /\ lastOp = [src |-> "edge_rejected", line |-> <<>>, opt |-> 0]
  /\ gameResult = S_GameResult \o JumpstartLine(playerNames[0])

\* C19: an edge on channel i with the flag clear is accepted (timestamp set to
\* the current time, flag set) if and only if more than the debounce window
\* has passed on the clock since the last accepted edge of the channel; a
\* rejected edge changes no state, and no edge changes another channel.
C19_DebouncedAccept ==
  [][\A i \in EdgeChannels :
       TouchEdge(i)
         => LET elapsed == USub(now, lastInterrupt[i])
                accepted == reactionTimes'[i] = now /\ touchDetected'[i]
            IN /\ ~touchDetected[i] => (accepted <=> elapsed > DEBOUNCE_WINDOW)
               /\ (touchDetected[i] \/ elapsed <= DEBOUNCE_WINDOW)
                    => UNCHANGED <<touchVars, now, pc, idx, configVars, timerVars,
                                   gameResult, gameHistory, leaderboard, sdVars, btOut>>
               /\ \A j \in Channels \ {i} :
                    /\ reactionTimes'[j] = reactionTimes[j]
                    /\ touchDetected'[j] = touchDetected[j]
                    /\ lastInterrupt'[j] = lastInterrupt[j]]_vars

\* An edge on channel 0 was rejected with the flag clear: the round was reset
\* within the debounce window of the edge accepted before it, and the rejected
\* edge came in Red, after an edge that channel 1 accepted there.
C19_Witness ==
  /\ lastOp = [src |-> "edge_rejected", line |-> <<>>, opt |-> 0]
  /\ ~touchDetected[0]
  /\ isrSerial[0] # <<>>
  /\ touchPhase[1] = "red"
  /\ USub(now, lastInterrupt[0]) <= DEBOUNCE_WINDOW

\* C20: the sequencer leaves Green only for Scoring and only once greenDuration
\* has elapsed since greenStartTime, whether or not the active players have
\* touched; and once it has elapsed the step to Scoring is open to the
\* sequencer whatever the touch flags are.
C20_GreenLastsItsDuration ==
  /\ [][(SequencerState = "Green" /\ SequencerState' # "Green")
          => /\ SequencerState' = "Scoring"
             /\ USub(now, greenStartTime) >= phaseDuration
             /\ UNCHANGED <<now, greenStartTime, phaseDuration>>]_vars
  /\ [](pc = "green" /\ USub(now, greenStartTime) >= phaseDuration => ENABLED GreenExit)

\* Scoring has just been entered in a round whose only active player touched
\* during Green before the duration had elapsed.
C20_Witness ==
  /\ pc = "score"
  /\ idx = 0
  /\ gameResult = S_GameResult
  /\ numberOfPlayers = 1
  /\ USub(now, greenStartTime) >= phaseDuration
  /\ \A i \in 0..(numberOfPlayers - 1) :
       /\ touchDetected[i]
       /\ touchPhase[i] = "green"
       /\ USub(reactionTimes[i], greenStartTime) < phaseDuration

\* C21: from the end of the reset loop until Scoring, a channel whose flag is
\* clear holds the unset timestamp, whatever edges came during the reset loop.
C21_ClearFlagMeansUnset ==
  \A i \in Channels :
    (SequencerState \in {"Red", "Yellow", "Green"} /\ ~touchDetected[i])
      => reactionTimes[i] = UNSET

\* ------------------------------------------- the link during a round
\* The lines the remote sends at any moment, in loop() or during a round. The
\* serial link keeps them until loop() reads them; an entry also records the
\* phase in which its line arrived.
LinkLines ==
  {SelectPlayersLine(2), SetPlayerLine(1, <<"A", "l", "i", "c", "e">>), S_DELETE_HISTORY}

BtArrive ==
  /\ Len(btIn) < MaxPending
  /\ \E line \in LinkLines : btIn' = Append(btIn, [line |-> line, during |-> Phase])
  /\ UNCHANGED <<now, pc, idx, touchVars, configVars, timerVars, gameResult, gameHistory,
                 leaderboard, sdVars, btOut, lastOp, countVars>>

\* if (ESP_BT.available()) of loop(): the oldest line received is read and
\* dispatched.
BtRead ==
  /\ btIn # <<>>
  /\ BtDispatch({Head(btIn).line})
  /\ btIn' = Tail(btIn)

NextLink ==
  \/ BtArrive
  \/ BtRead
  \/ SessionTouch
  \/ GreenTick
  \/ MenuStartGame
  \/ MenuOption
  \/ RoundStep

SpecLink == Init /\ [][NextLink]_vars

\* C22: while a round is in progress no command and no menu selection is
\* handled: the number of players, the names, the record of the last command
\* handled are left alone, and a line received
\* stays in the link, behind the lines received before it, until the main flow
\* is back in loop().
C22_NoCommandDuringRound ==
  [][pc # "idle"
       => /\ UNCHANGED <<configVars, lastOp, cmds>>
          /\ Len(btIn') >= Len(btIn)
          /\ SubSeq(btIn', 1, Len(btIn)) = btIn]_vars

\* The round is over and the players are still one: the line that asked for
\* two players during Green has not been read yet.
C22_Witness ==
  /\ pc = "idle"
  /\ rounds = 1
  /\ numberOfPlayers = 1
  /\ btIn = <<[line |-> SelectPlayersLine(2), during |-> "green"]>>

\* C23: a round changes the leaderboard slots of active players only, one slot
\* at a step, and its result has no line for a channel that is not active,
\* whatever edges come on that channel.
C23_InactiveSlotsKept ==
  [][pc # "idle"
       => /\ \A j \in Channels :
               j >= numberOfPlayers => leaderboard'[j] = leaderboard[j]
          /\ \A i, j \in Channels :
               (i # j /\ leaderboard'[i] # leaderboard[i]) => leaderboard'[j] = leaderboard[j]
          /\ \A j \in Channels :
               j >= numberOfPlayers => ~HasLine(gameResult', playerNames[j] \o S_Colon)]_vars

\* A round of one player is over in which channel 2, not active, was touched
\* during Green at a time that would count as a reaction: slot 0 holds the
\* reaction of player 1 and slot 1 is as it was.
C23_Witness ==
  /\ pc = "idle"
  /\ rounds = 1
  /\ numberOfPlayers = 1
  /\ touchPhase[1] = "green"
  /\ ValidReaction(reactionTimes[1], greenStartTime)
  /\ leaderboard[0].bestReactionTime > 0
  /\ leaderboard[1] = EmptyLeaderboard[1]

\* ------------------------------------------------ the history budget
\* A name as long as the budget: String playerName = command.substring(14)
\* takes whatever follows the index, and playerNames[] has no limit of length.
LongName == [k \in 1 .. MAX_HISTORY_SIZE |-> "x"]

\* The lines the remote sends in a session of rounds, changes of name and
\* deletions of the history. The index of the player is read at charAt(12) and
\* the name from substring(14): these are the lines that rename player 1.
HistoryLines ==
  {SetPlayerLine(11, LongName), SetPlayerLine(11, <<"A", "l", "i", "c", "e">>),
   S_DELETE_HISTORY}

HistoryCommand == BtCommandOf(HistoryLines)

NextHistory ==
  \/ HistoryCommand
  \/ SessionTouch
  \/ GreenTick
  \/ MenuStartGame
  \/ MenuOption
  \/ Reboot
  \/ RoundStep

SpecHistory == Init /\ [][NextHistory]_vars

\* C24: whenever the main flow is in loop(), after any rounds, changes of name
\* and deletions of the history, the history in memory is shorter than
\* MAX_HISTORY_SIZE.
C24_HistoryBelowBudget == pc = "idle" => Len(gameHistory) < MAX_HISTORY_SIZE

====
